---- MODULE Spec2Model ----
(***************************************************************************)
(* Model of the filename-inference engine of anime_rename_bot.py           *)
(* (AnimeRenameBot.extract_anime_info, AnimeRenameBot.generate_new_filename)*)
(* and of the handler AnimeRenameBot.handle_document that calls it.        *)
(*                                                                         *)
(* A Python str is a sequence of one-character strings.  Python's None is  *)
(* the value None.  Regular expressions are transcribed item by item and   *)
(* run by a backtracking matcher with Python's priorities (leftmost start, *)
(* greedy = longest first, lazy = shortest first, alternatives in order).  *)
(***************************************************************************)
EXTENDS Integers, Sequences, FiniteSets, TLC

VARIABLES
    filename,       \* the filename handed to the engine (document.file_name)
    pc,             \* position of the caller
    name,           \* extract_anime_info: os.path.splitext(filename)[0]
    rule,           \* extract_anime_info: index in patterns of the pattern that matched, 0 if none
    match,          \* extract_anime_info: the match object's group spans
    anime_name,     \* result / argument: the series name
    episode,        \* result / argument: the episode (None if absent)
    raised,         \* the exception raised by the engine, "none" if none
    extension,      \* generate_new_filename: os.path.splitext(original_filename)[1]
    formatted,      \* generate_new_filename: new_filename before line 123
    new_filename,   \* result of generate_new_filename
    calls,          \* generate_new_filename calls made so far: (arguments, result)
    file_size,      \* handle_document: document.file_size, in MiB
    sent,           \* handle_document: messages sent to the requester so far
    failed,         \* handle_document: the failure met, "none" if none
    logged,         \* handle_document: texts written to the log
    propagated,     \* handle_document: an exception left the handler
    shape           \* the parts a shaped filename was written from (None otherwise)

vars == <<filename, pc, name, rule, match, anime_name, episode, raised,
          extension, formatted, new_filename, calls, file_size, sent, failed,
          logged, propagated, shape>>

\* Python's None: a value that is no str (every element of a str is one character)
None == <<"None">>

(***************************************************************************)
(* Characters and character classes (re, str methods)                      *)
(***************************************************************************)
\* \s and str.strip(): the whitespace characters
Whitespace == {" ", "\t", "\n"}

\* \d
Digit == {"0", "1", "2", "3", "4", "5", "6", "7", "8", "9"}

UpperSeq == <<"A","B","C","D","E","F","G","H","I","J","K","L","M",
              "N","O","P","Q","R","S","T","U","V","W","X","Y","Z">>
LowerSeq == <<"a","b","c","d","e","f","g","h","i","j","k","l","m",
              "n","o","p","q","r","s","t","u","v","w","x","y","z">>
UpperLetters == {UpperSeq[i] : i \in DOMAIN UpperSeq}
LowerLetters == {LowerSeq[i] : i \in DOMAIN LowerSeq}

\* re.IGNORECASE: characters are compared after case folding
LowerOf == [c \in UpperLetters |->
               LowerSeq[CHOOSE i \in DOMAIN UpperSeq : UpperSeq[i] = c]]
Lower(c) == IF c \in UpperLetters THEN LowerOf[c] ELSE c

\* \w
IsWord(c) == c \in Digit \cup UpperLetters \cup LowerLetters \cup {"_"}

\* membership of a character in a class of a pattern
InClass(c, cls) ==
    CASE cls = "any"   -> c # "\n"                 \* .
      [] cls = "space" -> c \in Whitespace         \* \s
      [] cls = "digit" -> c \in Digit              \* \d
      [] cls = "sep"   -> c \in {".", "-", "_"}    \* [\.\-_]
      [] cls = "reserved" ->                       \* [<>:"/\\|?*]
             c \in {"<", ">", ":", "\"", "/", "\\", "|", "?", "*"}
      [] OTHER -> FALSE

(***************************************************************************)
(* Pattern items.  A pattern is a sequence of items:                       *)
(*   cls   a character class repeated lo..(many ? unbounded : 1) times,    *)
(*         greedy or lazy, captured as group grp (0: not captured)         *)
(*   lit   one literal character (compared case-insensitively)             *)
(*   alt   (?:A|B|...): alternatives, each a sequence of items             *)
(*   eos   $                                                               *)
(*   wb    \b                                                              *)
(***************************************************************************)
Item(kind, c, lo, many, greedy, grp) ==
    [kind |-> kind, c |-> c, lo |-> lo, many |-> many, greedy |-> greedy,
     grp |-> grp, alts |-> <<>>]
Lit(c)            == Item("lit", Lower(c), 1, FALSE, TRUE, 0)
One(cls)          == Item("cls", cls, 1, FALSE, TRUE, 0)
Star(cls)         == Item("cls", cls, 0, TRUE, TRUE, 0)
StarLazy(cls)     == Item("cls", cls, 0, TRUE, FALSE, 0)
Plus(cls)         == Item("cls", cls, 1, TRUE, TRUE, 0)
PlusG(cls, g)     == Item("cls", cls, 1, TRUE, TRUE, g)
PlusLazyG(cls, g) == Item("cls", cls, 1, TRUE, FALSE, g)
Eos               == Item("eos", "", 0, FALSE, TRUE, 0)
Wb                == Item("wb", "", 0, FALSE, TRUE, 0)
Alt(as)           == [Item("alt", "", 0, FALSE, TRUE, 0) EXCEPT !.alts = as]
Lits(t)           == [i \in DOMAIN t |-> Lit(t[i])]

(***************************************************************************)
(* The matcher: re's backtracking search                                   *)
(***************************************************************************)
\* the span of a group that took no part in the match
NoSpan  == <<0, 0>>
NoCaps  == [g \in 1..3 |-> NoSpan]
NoMatch == [ok |-> FALSE, caps |-> NoCaps, end |-> 0]

\* \b at pos: exactly one of the characters before and at pos is a word character
AtWordBoundary(s, pos) ==
    LET before == pos > 1 /\ IsWord(s[pos - 1])
        after  == pos <= Len(s) /\ IsWord(s[pos])
    IN  before # after

\* $ at pos: the end of the string, or just before a newline that ends it
AtEnd(s, pos) ==
    \/ pos = Len(s) + 1
    \/ pos = Len(s) /\ s[pos] = "\n"

\* whether item it accepts the character c
Accepts(it, c) ==
    IF it.kind = "lit" THEN Lower(c) = it.c ELSE InClass(c, it.c)

\* the number of characters from pos on that item it accepts
RECURSIVE Run(_, _, _)
Run(s, it, pos) ==
    IF pos > Len(s) \/ ~Accepts(it, s[pos]) THEN 0
    ELSE IF it.many THEN 1 + Run(s, it, pos + 1) ELSE 1

\* the match of items[k], items[k+1], ... from pos on: the first success in
\* priority order
RECURSIVE MatchItems(_, _, _, _), TryCount(_, _, _, _, _, _), TryAlts(_, _, _, _)
MatchItems(s, items, k, pos) ==
    IF k > Len(items) THEN [ok |-> TRUE, caps |-> NoCaps, end |-> pos]
    ELSE LET it == items[k] IN
         CASE it.kind = "eos" ->
                  IF AtEnd(s, pos) THEN MatchItems(s, items, k + 1, pos) ELSE NoMatch
           [] it.kind = "wb" ->
                  IF AtWordBoundary(s, pos) THEN MatchItems(s, items, k + 1, pos)
                  ELSE NoMatch
           [] it.kind = "alt" ->
                  TryAlts(s, it.alts, SubSeq(items, k + 1, Len(items)), pos)
           [] OTHER ->
                  LET run == Run(s, it, pos) IN
                  IF run < it.lo THEN NoMatch
                  ELSE IF it.greedy THEN TryCount(s, items, k, pos, run, it.lo)
                  ELSE TryCount(s, items, k, pos, it.lo, run)

\* item items[k] taking n characters, then n nearer to last, ..., then last
TryCount(s, items, k, pos, n, last) ==
    LET r == MatchItems(s, items, k + 1, pos + n) IN
    IF r.ok
    THEN IF items[k].grp = 0 THEN r
         ELSE [r EXCEPT !.caps[items[k].grp] = <<pos, pos + n - 1>>]
    ELSE IF n = last THEN NoMatch
    ELSE TryCount(s, items, k, pos, IF n < last THEN n + 1 ELSE n - 1, last)

\* the alternatives in order, each followed by the rest of the pattern
TryAlts(s, alts, rest, pos) ==
    IF alts = <<>> THEN NoMatch
    ELSE LET r == MatchItems(s, Head(alts) \o rest, 1, pos) IN
         IF r.ok THEN r ELSE TryAlts(s, Tail(alts), rest, pos)

\* re.search(pattern, s, re.IGNORECASE): the match at the leftmost start
RECURSIVE SearchFrom(_, _, _)
SearchFrom(s, items, i) ==
    IF i > Len(s) + 1 THEN NoMatch
    ELSE LET r == MatchItems(s, items, 1, i) IN
         IF r.ok THEN r ELSE SearchFrom(s, items, i + 1)
Search(items, s) == SearchFrom(s, items, 1)

\* re.sub(pattern, repl, s) for a pattern that matches no empty string
RECURSIVE SubFrom(_, _, _, _)
SubFrom(items, repl, s, pos) ==
    IF pos > Len(s) THEN <<>>
    ELSE LET r == MatchItems(s, items, 1, pos) IN
         IF r.ok /\ r.end > pos THEN repl \o SubFrom(items, repl, s, r.end)
         ELSE <<s[pos]>> \o SubFrom(items, repl, s, pos + 1)
Sub(items, repl, s) == SubFrom(items, repl, s, 1)

\* str.strip()
RECURSIVE LStrip(_), RStrip(_)
LStrip(s) == IF s # <<>> /\ Head(s) \in Whitespace THEN LStrip(Tail(s)) ELSE s
RStrip(s) ==
    IF s # <<>> /\ s[Len(s)] \in Whitespace THEN RStrip(SubSeq(s, 1, Len(s) - 1))
    ELSE s
Strip(s) == RStrip(LStrip(s))

\* match.group(g): the captured text, None for a group that took no part
Group(s, m, g) ==
    IF m.caps[g] = NoSpan THEN None ELSE SubSeq(s, m.caps[g][1], m.caps[g][2])

\* Python truth of an optional str: neither None nor empty
Truthy(x) == x # None /\ x # <<>>

(***************************************************************************)
(* os.path.splitext (posixpath)                                            *)
(***************************************************************************)
\* p.rfind(c): the last index of c in p, 0 if none
RFind(p, c) ==
    IF \E i \in DOMAIN p : p[i] = c
    THEN CHOOSE i \in DOMAIN p : p[i] = c /\ \A j \in DOMAIN p : p[j] = c => j <= i
    ELSE 0

\* the index at which splitext splits p, 0 if p has no extension: the last dot,
\* if it lies after the last "/" and some character other than a dot lies
\* between the two
SplitIndex(p) ==
    LET sepIndex == RFind(p, "/")
        dotIndex == RFind(p, ".")
    IN  IF dotIndex > sepIndex
           /\ \E i \in (sepIndex + 1)..(dotIndex - 1) : p[i] # "."
        THEN dotIndex ELSE 0

\* a split at the last dot wherever it lies
splitext_AtLastDot(p) ==
    LET d == RFind(p, ".") IN
    IF d = 0 THEN <<p, <<>>>>
    ELSE <<SubSeq(p, 1, d - 1), SubSeq(p, d, Len(p))>>

splitext(p) ==
    LET d == SplitIndex(p) IN
    IF d = 0 THEN <<p, <<>>>>
    ELSE <<SubSeq(p, 1, d - 1), SubSeq(p, d, Len(p))>>

(***************************************************************************)
(* extract_anime_info                                                      *)
(***************************************************************************)
\* the bracket pattern with a lazy episode group, r'\[.*?\]\s*(.+?)\s*-\s*(\d+?)'
Pattern1_LazyDigits ==
    <<Lit("["), StarLazy("any"), Lit("]"), Star("space"), PlusLazyG("any", 1),
      Star("space"), Lit("-"), Star("space"),
      PlusLazyG("digit", 2)>>

\* r'\[.*?\]\s*(.+?)\s*-\s*(\d+)'
Pattern1 ==
    <<Lit("["), StarLazy("any"), Lit("]"), Star("space"), PlusLazyG("any", 1),
      Star("space"), Lit("-"), Star("space"), PlusG("digit", 2)>>
\* r'(.+?)\.(?:S\d+E(\d+)|Episode\.(\d+))'
Pattern2 ==
    <<PlusLazyG("any", 1), Lit("."),
      Alt(<< <<Lit("S"), Plus("digit"), Lit("E"), PlusG("digit", 2)>>,
             Lits(<<"E","p","i","s","o","d","e",".">>) \o <<PlusG("digit", 3)>> >>)>>
\* r'(.+?)\s+Episode\s+(\d+)'
Pattern3 ==
    <<PlusLazyG("any", 1), Plus("space")>>
    \o Lits(<<"E","p","i","s","o","d","e">>)
    \o <<Plus("space"), PlusG("digit", 2)>>
\* r'(.+?)\s*-\s*(\d+)'
Pattern4 ==
    <<PlusLazyG("any", 1), Star("space"), Lit("-"), Star("space"),
      PlusG("digit", 2)>>
\* r'(.+?)\s+(\d+)(?:\s|$)'
Pattern5 ==
    <<PlusLazyG("any", 1), Plus("space"), PlusG("digit", 2),
      Alt(<< <<One("space")>>, <<Eos>> >>)>>

\* the list patterns, each with the number of groups it defines
\* the list with the plain hyphen pattern tried first
patterns_HyphenFirst ==
    <<[re |-> Pattern4, groups |-> 2],
      [re |-> Pattern2, groups |-> 3],
      [re |-> Pattern3, groups |-> 2],
      [re |-> Pattern1, groups |-> 2],
      [re |-> Pattern5, groups |-> 2]>>

patterns ==
    <<[re |-> Pattern1, groups |-> 2],
      [re |-> Pattern2, groups |-> 3],
      [re |-> Pattern3, groups |-> 2],
      [re |-> Pattern4, groups |-> 2],
      [re |-> Pattern5, groups |-> 2]>>

\* r'[\.\-_]+'
SeparatorRun == <<Plus("sep")>>
\* r'\s+'
WhitespaceRun == <<Plus("space")>>
\* r'\b(720p|1080p|480p|BD|BluRay|WEB|HDTV)\b'
QualityIndicator ==
    <<Wb,
      Alt(<<Lits(<<"7","2","0","p">>), Lits(<<"1","0","8","0","p">>),
            Lits(<<"4","8","0","p">>), Lits(<<"B","D">>),
            Lits(<<"B","l","u","R","a","y">>), Lits(<<"W","E","B">>),
            Lits(<<"H","D","T","V">>)>>),
      Wb>>

\* both groups read before the choice: match.group(3) raises for a pattern
\* that defines two groups
EpisodeOf_BothRead(s, m, groups) ==
    IF groups < 3 THEN [value |-> None, raised |-> "IndexError"]
    ELSE LET g2 == Group(s, m, 2) IN
         [value |-> IF Truthy(g2) THEN g2 ELSE Group(s, m, 3), raised |-> "none"]

\* match.group(2) or match.group(3): group(3) of a pattern that defines two
\* groups raises IndexError
EpisodeOf(s, m, groups) ==
    LET g2 == Group(s, m, 2) IN
    IF Truthy(g2) THEN [value |-> g2, raised |-> "none"]
    ELSE IF groups < 3 THEN [value |-> None, raised |-> "IndexError"]
    ELSE [value |-> Group(s, m, 3), raised |-> "none"]

\* lines 98-104: the clean-up of the captured name
CleanName(n) ==
    LET a == Sub(SeparatorRun, <<" ">>, n)
        b == Strip(Sub(WhitespaceRun, <<" ">>, a))
        c == Sub(QualityIndicator, <<>>, b)
    IN  Strip(c)

\* a fallback that cleans the stem as a captured name is cleaned
Fallback_Cleaned(s) ==
    [rule |-> 0, match |-> NoMatch, anime_name |-> CleanName(s),
     episode |-> None, raised |-> "none"]

\* line 109: no pattern matched
Fallback(s) ==
    [rule |-> 0, match |-> NoMatch, anime_name |-> s, episode |-> None,
     raised |-> "none"]

\* the for loop over patterns, from pattern k on
RECURSIVE TryPatterns(_, _)
TryPatterns(s, k) ==
    IF k > Len(patterns) THEN Fallback(s)
    ELSE LET m == Search(patterns[k].re, s) IN
         IF m.ok
         THEN LET first == Strip(Group(s, m, 1))
                  ep    == EpisodeOf(s, m, patterns[k].groups)
              IN  [rule |-> k, match |-> m,
                   anime_name |-> IF ep.raised = "none" THEN CleanName(first)
                                  ELSE None,
                   episode |-> ep.value, raised |-> ep.raised]
         ELSE TryPatterns(s, k + 1)

extract_anime_info(f) ==
    LET stem == splitext(f)[1] IN
    [name |-> stem] @@ TryPatterns(stem, 1)

(***************************************************************************)
(* generate_new_filename                                                   *)
(***************************************************************************)
\* str.zfill(width)
RECURSIVE Zeros(_)
Zeros(n) == IF n <= 0 THEN <<>> ELSE <<"0">> \o Zeros(n - 1)
\* no padding at all
zfill_None(s, width) == s

zfill(s, width) ==
    IF Len(s) >= width THEN s
    ELSE IF s # <<>> /\ s[1] \in {"+", "-"}
         THEN <<s[1]>> \o Zeros(width - Len(s)) \o Tail(s)
         ELSE Zeros(width - Len(s)) \o s

\* r'[<>:"/\\|?*]'
InvalidCharacter == <<One("reserved")>>

\* lines 113-120: the f-strings
Format(a_name, ep, original_filename) ==
    LET ext == splitext(original_filename)[2] IN
    IF Truthy(ep)
    THEN a_name \o <<" ","-"," ","E","p","i","s","o","d","e"," ">>
         \o zfill(ep, 2) \o ext
    ELSE a_name \o ext

\* reserved characters replaced by an underscore
RemoveInvalid_Substituted(s) == Sub(InvalidCharacter, <<"_">>, s)

\* line 123
RemoveInvalid(s) == Sub(InvalidCharacter, <<>>, s)

generate_new_filename(a_name, ep, original_filename) ==
    RemoveInvalid(Format(a_name, ep, original_filename))

(***************************************************************************)
(* The filenames the engine is run on: up to MaxTokens fragments in a row, *)
(* of up to MaxLen characters together, with or without an extension       *)
(***************************************************************************)
MaxTokens == 3
MaxLen == 17

Tokens ==
    { <<"[","g","]"," ">>,                           \* a release-group tag
      <<"a">>,                                       \* a word
      <<"a"," ","B","D"," ","b">>,                   \* words around a quality indicator
      <<"7","2","0","p">>,                           \* a quality indicator
      <<" ","-"," ","0","7">>,                       \* hyphen and episode number
      <<" ">>, <<".">>,                              \* separators
      <<"0","7">>,                                   \* digits
      <<".","s","1","E">>,                           \* season marker
      <<".","E","p","i","s","o","d","e",".">>,       \* dotted episode marker
      <<" ","e","p","i","s","o","d","e"," ">> }      \* spaced episode marker

Extensions == { <<>>, <<".","m","k","v">> }

RECURSIVE TokenSeqs(_)
TokenSeqs(n) ==
    IF n = 0 THEN {<<>>}
    ELSE LET shorter == TokenSeqs(n - 1) IN
         shorter \cup {f \in {p \o t : p \in shorter, t \in Tokens} :
                          Len(f) <= MaxLen}

Filenames == {body \o ext : body \in TokenSeqs(MaxTokens), ext \in Extensions}

(***************************************************************************)
(* The engine as handle_text runs it (lines 188-189):                      *)
(* extract_anime_info, then generate_new_filename on its result            *)
(***************************************************************************)
\* no document is being handled
Idle ==
    /\ file_size = 0
    /\ sent = <<>>
    /\ failed = "none"
    /\ logged = <<>>
    /\ propagated = FALSE

\* extract_anime_info has not been called
NotExtracted ==
    /\ name = None
    /\ rule = 0
    /\ match = NoMatch
    /\ raised = "none"

\* generate_new_filename has not been called
NotGenerated ==
    /\ extension = None
    /\ formatted = None
    /\ new_filename = None
    /\ calls = {}

Init ==
    /\ filename \in Filenames
    /\ pc = "start"
    /\ anime_name = None
    /\ episode = None
    /\ shape = None
    /\ NotExtracted
    /\ NotGenerated
    /\ Idle

\* anime_name, episode = self.extract_anime_info(filename)
ExtractAnimeInfo ==
    /\ pc = "start"
    /\ \E r \in {extract_anime_info(filename)} :
       /\ name' = r.name
       /\ rule' = r.rule
       /\ match' = r.match
       /\ anime_name' = r.anime_name
       /\ episode' = r.episode
       /\ raised' = r.raised
       /\ pc' = IF r.raised = "none" THEN "extracted" ELSE "raised"
    /\ UNCHANGED <<filename, extension, formatted, new_filename, calls,
                   file_size, sent, failed, logged, propagated, shape>>

\* new_filename = self.generate_new_filename(anime_name, episode, filename)
GenerateNewFilename ==
    /\ pc = "extracted"
    /\ extension' = splitext(filename)[2]
    /\ formatted' = Format(anime_name, episode, filename)
    /\ new_filename' = generate_new_filename(anime_name, episode, filename)
    /\ calls' = calls \cup
                {[anime_name |-> anime_name, episode |-> episode,
                  original_filename |-> filename, extension |-> extension',
                  new_filename |-> new_filename']}
    /\ pc' = "generated"
    /\ UNCHANGED <<filename, name, rule, match, anime_name, episode, raised,
                   file_size, sent, failed, logged, propagated, shape>>

Next == ExtractAnimeInfo \/ GenerateNewFilename

Spec == Init /\ [][Next]_vars

(***************************************************************************)
(* extract_anime_info on filenames of the shape                            *)
(* "[<Grp>] <Name> - <digits> [<quality>].<ext>"                           *)
(***************************************************************************)
ShapeGroups    == { <<"g">>, <<>>, <<"x"," ","-"," ","3">>, <<"a","]","b">>,
                    <<"g","\n">> }
ShapeNames     == TokenSeqs(2) \cup
                  { <<"a"," ","b">>, <<"a"," ","5"," ","b">>,
                    <<"R","e","-","Z","e","r","o">>, <<"W","e","b"," ","a">> }
ShapeDigits    == { <<"7">>, <<"0","7">>, <<"1","2","3">> }
ShapeQualities == { <<"7","2","0","p">>, <<"x","/","y">> }
ShapeExts      == { <<"m","k","v">>, <<"m",".","v">> }

ShapedFilename(sh) ==
    <<"[">> \o sh.grp \o <<"]", " ">> \o sh.name \o <<" ", "-", " ">>
    \o sh.digits \o <<" ", "[">> \o sh.quality \o <<"]", ".">> \o sh.ext

InitShape ==
    /\ shape \in [grp : ShapeGroups, name : ShapeNames, digits : ShapeDigits,
                  quality : ShapeQualities, ext : ShapeExts]
    /\ filename = ShapedFilename(shape)
    /\ pc = "start"
    /\ anime_name = None
    /\ episode = None
    /\ NotExtracted
    /\ NotGenerated
    /\ Idle

SpecShape == InitShape /\ [][Next]_vars

(***************************************************************************)
(* The engine on every path of up to MaxPathLen characters among a letter, *)
(* "." and "/"                                                             *)
(***************************************************************************)
MaxPathLen == 5

PathChars == {"a", ".", "/"}

RECURSIVE Paths(_)
Paths(n) ==
    IF n = 0 THEN {<<>>}
    ELSE LET shorter == Paths(n - 1) IN
         shorter \cup {<<c>> \o p : c \in PathChars, p \in shorter}

InitSplit ==
    /\ filename \in Paths(MaxPathLen)
    /\ pc = "start"
    /\ anime_name = None
    /\ episode = None
    /\ shape = None
    /\ NotExtracted
    /\ NotGenerated
    /\ Idle

SpecSplit == InitSplit /\ [][Next]_vars

(***************************************************************************)
(* generate_new_filename on arguments of its own                           *)
(***************************************************************************)
MaxNameLen == 2
MaxCalls == 2

NameChars == {"a", "<", ">", ":", "\"", "/", "\\", "|", "?", "*"}

RECURSIVE CharSeqs(_)
CharSeqs(n) ==
    IF n = 0 THEN {<<>>}
    ELSE LET shorter == CharSeqs(n - 1) IN
         shorter \cup {<<c>> \o p : c \in NameChars, p \in shorter}

BuildNames    == CharSeqs(MaxNameLen)
BuildEpisodes == { None, <<>>, <<"5">>, <<"1","2">>, <<"1","2","3">> }
BuildFiles    == { <<"x",".","m","?","v">>, <<"y","/","z",".","m","?","v">>,
                   <<"x",".","m","k","v">>, <<"z">> }

InitBuild ==
    /\ anime_name \in BuildNames
    /\ episode \in BuildEpisodes
    /\ filename \in BuildFiles
    /\ pc = "extracted"
    /\ shape = None
    /\ NotExtracted
    /\ NotGenerated
    /\ Idle

\* the caller calls generate_new_filename again, for another original filename
NextCall ==
    /\ pc = "generated"
    /\ Cardinality(calls) < MaxCalls
    /\ \E f \in BuildFiles \ {filename} : filename' = f
    /\ pc' = "extracted"
    /\ UNCHANGED <<name, rule, match, anime_name, episode, raised, extension,
                   formatted, new_filename, calls, file_size, sent, failed,
                   logged, propagated, shape>>

NextBuild == GenerateNewFilename \/ NextCall

SpecBuild == InitBuild /\ [][NextBuild]_vars

(***************************************************************************)
(* handle_document                                                         *)
(***************************************************************************)
video_extensions ==
    { <<".","m","k","v">>, <<".","m","p","4">>, <<".","a","v","i">>,
      <<".","m","o","v">>, <<".","w","m","v">>, <<".","f","l","v">>,
      <<".","w","e","b","m">> }

\* str.lower()
LowerCase(s) == [i \in DOMAIN s |-> Lower(s[i])]

\* str.endswith(suffix)
EndsWith(s, suffix) ==
    /\ Len(suffix) <= Len(s)
    /\ SubSeq(s, Len(s) - Len(suffix) + 1, Len(s)) = suffix

\* line 133: any(document.file_name.lower().endswith(ext) for ext in video_extensions)
IsVideo(f) == \E ext \in video_extensions : EndsWith(LowerCase(f), ext)

\* line 138: document.file_size > 1000 * 1024 * 1024, file_size being in MiB
TooLarge(size) == size > 1000

\* the documents sent to the bot
Documents ==
    { <<"a",".","m","k","v">>, <<"a"," ","-"," ","0","7",".","M","P","4">>,
      <<"[","g","]"," ","a"," ","-"," ","0","7",".","w","e","b","m">>,
      <<"a",".","t","x","t">> }
Sizes == {1, 1000, 1001}

\* a message to the requester: what it is, and the exception text it carries
Message(kind) == [kind |-> kind, exception |-> "none"]

\* the statements of the try block (lines 150-175) after the engine calls, the
\* exception each may raise, and the message it sends when it does not
TrySteps ==
    <<[at |-> "reply_downloading", raises |-> "NetworkError", sends |-> "downloading"],
      [at |-> "get_file",          raises |-> "NetworkError", sends |-> "none"],
      [at |-> "makedirs",          raises |-> "OSError",      sends |-> "none"],
      [at |-> "download_to_drive", raises |-> "NetworkError", sends |-> "none"],
      [at |-> "rename",            raises |-> "OSError",      sends |-> "none"],
      [at |-> "reply_renamed",     raises |-> "NetworkError", sends |-> "renamed"],
      [at |-> "open",              raises |-> "OSError",      sends |-> "none"],
      [at |-> "reply_document",    raises |-> "NetworkError", sends |-> "document"],
      [at |-> "remove",            raises |-> "OSError",      sends |-> "none"]>>

InitHandler ==
    /\ filename \in Documents
    /\ file_size \in Sizes
    /\ pc = "check_type"
    /\ sent = <<>>
    /\ failed = "none"
    /\ logged = <<>>
    /\ propagated = FALSE
    /\ anime_name = None
    /\ episode = None
    /\ shape = None
    /\ NotExtracted
    /\ NotGenerated

\* an awaited reply outside the try block: it is sent and the handler returns,
\* or it raises and the exception leaves the handler
ReplyAndReturn(kind) ==
    \E ok \in BOOLEAN :
        IF ok
        THEN /\ sent' = Append(sent, Message(kind))
             /\ pc' = "returned"
             /\ UNCHANGED propagated
        ELSE /\ propagated' = TRUE
             /\ pc' = "raised"
             /\ UNCHANGED sent

\* lines 131-135
CheckType ==
    /\ pc = "check_type"
    /\ IF IsVideo(filename)
       THEN /\ pc' = "check_size"
            /\ UNCHANGED <<sent, failed, propagated>>
       ELSE /\ failed' = "unsupported"
            /\ ReplyAndReturn("not_a_video")
    /\ UNCHANGED <<filename, name, rule, match, anime_name, episode, raised,
                   extension, formatted, new_filename, calls, file_size,
                   logged, shape>>

\* lines 137-140
CheckSize ==
    /\ pc = "check_size"
    /\ IF TooLarge(file_size)
       THEN /\ failed' = "oversized"
            /\ ReplyAndReturn("too_large")
       ELSE /\ pc' = "chat_action"
            /\ UNCHANGED <<sent, failed, propagated>>
    /\ UNCHANGED <<filename, name, rule, match, anime_name, episode, raised,
                   extension, formatted, new_filename, calls, file_size,
                   logged, shape>>

\* line 142: await update.message.reply_chat_action(ChatAction.TYPING)
ChatAction ==
    /\ pc = "chat_action"
    /\ \E ok \in BOOLEAN :
        IF ok
        THEN /\ pc' = "engine"
             /\ UNCHANGED <<failed, propagated>>
        ELSE /\ failed' = "NetworkError"
             /\ propagated' = TRUE
             /\ pc' = "raised"
    /\ UNCHANGED <<filename, name, rule, match, anime_name, episode, raised,
                   extension, formatted, new_filename, calls, file_size, sent,
                   logged, shape>>

\* lines 146-147: the two engine calls, inside the try block
Engine ==
    /\ pc = "engine"
    /\ \E r \in {extract_anime_info(filename)} :
       /\ name' = r.name
       /\ rule' = r.rule
       /\ match' = r.match
       /\ anime_name' = r.anime_name
       /\ episode' = r.episode
       /\ raised' = r.raised
       /\ IF r.raised = "none"
          THEN /\ extension' = splitext(filename)[2]
               /\ formatted' = Format(r.anime_name, r.episode, filename)
               /\ new_filename' = generate_new_filename(r.anime_name, r.episode, filename)
               /\ calls' = calls \cup
                      {[anime_name |-> r.anime_name, episode |-> r.episode,
                        original_filename |-> filename, extension |-> extension',
                        new_filename |-> new_filename']}
               /\ pc' = TrySteps[1].at
               /\ UNCHANGED failed
          ELSE /\ failed' = r.raised
               /\ pc' = "except"
               /\ UNCHANGED <<extension, formatted, new_filename, calls>>
    /\ UNCHANGED <<filename, file_size, sent, logged, propagated, shape>>

\* one statement of lines 150-175: it completes, or it raises and control
\* goes to the except clause
TryStep ==
    /\ \E i \in DOMAIN TrySteps :
        /\ pc = TrySteps[i].at
        /\ \E ok \in BOOLEAN :
            IF ok
            THEN /\ sent' = IF TrySteps[i].sends = "none" THEN sent
                            ELSE Append(sent, Message(TrySteps[i].sends))
                 /\ pc' = IF i = Len(TrySteps) THEN "returned" ELSE TrySteps[i + 1].at
                 /\ UNCHANGED failed
            ELSE /\ failed' = TrySteps[i].raises
                 /\ pc' = "except"
                 /\ UNCHANGED sent
    /\ UNCHANGED <<filename, name, rule, match, anime_name, episode, raised,
                   extension, formatted, new_filename, calls, file_size,
                   logged, propagated, shape>>

\* lines 177-179: the exception is logged and the notice is sent; the reply
\* is awaited inside the except clause, where nothing catches what it raises
Except ==
    /\ pc = "except"
    /\ logged' = Append(logged, [text |-> "Error processing file", exception |-> failed])
    /\ ReplyAndReturn("error_notice")
    /\ UNCHANGED <<filename, name, rule, match, anime_name, episode, raised,
                   extension, formatted, new_filename, calls, file_size,
                   failed, shape>>

NextHandler == CheckType \/ CheckSize \/ ChatAction \/ Engine \/ TryStep \/ Except

SpecHandler == InitHandler /\ [][NextHandler]_vars

(***************************************************************************)
(* What it means for a rule to match: the decompositions of a stem s into  *)
(* name (s[a..b]) and episode digits (s[d..e]) that each rule describes    *)
(***************************************************************************)
AllIn(s, i, j, cls) == \A x \in i..j : InClass(s[x], cls)

\* the text of s from i on is the word w, letter case aside
WordAt(s, i, w) ==
    /\ i >= 1
    /\ i + Len(w) - 1 <= Len(s)
    /\ \A x \in 1..Len(w) : Lower(s[i + x - 1]) = Lower(w[x])

\* what a rule wants before the name: R1 a bracketed tag, then whitespace
HeadOK(k, s, a) ==
    k = 1 => \E i \in 1..(a - 2) : \E j \in (i + 1)..(a - 1) :
                 /\ s[i] = "["
                 /\ s[j] = "]"
                 /\ AllIn(s, i + 1, j - 1, "any")
                 /\ AllIn(s, j + 1, a - 1, "space")

\* what a rule wants between the name, which ends at b, and the digits,
\* which start at d
MidOK(k, s, b, d) ==
    CASE k \in {1, 4} ->
             \E c \in (b + 1)..(d - 1) :
                 /\ s[c] = "-"
                 /\ AllIn(s, b + 1, c - 1, "space")
                 /\ AllIn(s, c + 1, d - 1, "space")
      [] k = 2 ->
             /\ s[b + 1] = "."
             /\ \/ /\ d >= b + 5
                   /\ Lower(s[b + 2]) = "s"
                   /\ AllIn(s, b + 3, d - 2, "digit")
                   /\ Lower(s[d - 1]) = "e"
                \/ /\ d = b + 10
                   /\ WordAt(s, b + 2, <<"e","p","i","s","o","d","e",".">>)
      [] k = 3 ->
             \E x \in (b + 2)..(d - 8) :
                 /\ AllIn(s, b + 1, x - 1, "space")
                 /\ WordAt(s, x, <<"e","p","i","s","o","d","e">>)
                 /\ AllIn(s, x + 7, d - 1, "space")
      [] k = 5 ->
             /\ d >= b + 2
             /\ AllIn(s, b + 1, d - 1, "space")

\* what a rule wants after the digits, which end at e: R5 whitespace or the end
AfterOK(k, s, e) ==
    k = 5 => (e = Len(s) \/ s[e + 1] \in Whitespace)

\* s[a..b] and s[d..e] are a name and an episode that rule k finds in s
Parses(k, s, a, b, d, e) ==
    /\ 1 <= a /\ a <= b /\ b < d /\ d <= e /\ e <= Len(s)
    /\ AllIn(s, a, b, "any")
    /\ AllIn(s, d, e, "digit")
    /\ HeadOK(k, s, a)
    /\ MidOK(k, s, b, d)
    /\ AfterOK(k, s, e)

\* rule k matches somewhere in s: Parses(k, s, a, b, d, e) for some a, b, d, e
RuleMatches(k, s) ==
    \E d \in 1..Len(s) :
        /\ s[d] \in Digit
        /\ \E b \in 1..(d - 1) :
            /\ MidOK(k, s, b, d)
            /\ \E a \in 1..b : AllIn(s, a, b, "any") /\ HeadOK(k, s, a)
        /\ \E e \in d..Len(s) : AllIn(s, d, e, "digit") /\ AfterOK(k, s, e)

Rules == 1..5
\* extract_anime_info has just returned
Extracted == pc = "extracted"

\* the spans of the name group and of the episode group of the match
NameSpan == match.caps[1]
EpisodeSpan == IF match.caps[2] # NoSpan THEN match.caps[2] ELSE match.caps[3]

(***************************************************************************)
(* C1. The result of extract_anime_info comes from the lowest-numbered     *)
(* rule that matches anywhere in the stem: no lower-numbered rule matches, *)
(* the name and the episode are the two captures of one decomposition of   *)
(* the stem by that rule, and when no rule matches none is reported.       *)
(***************************************************************************)
C1_FirstMatchingRuleWins ==
    Extracted =>
        /\ \A k \in Rules : (rule = 0 \/ k < rule) => ~RuleMatches(k, name)
        /\ rule # 0 =>
            /\ Parses(rule, name, NameSpan[1], NameSpan[2],
                      EpisodeSpan[1], EpisodeSpan[2])
            /\ anime_name = CleanName(Strip(SubSeq(name, NameSpan[1], NameSpan[2])))
            /\ episode = SubSeq(name, EpisodeSpan[1], EpisodeSpan[2])

\* a stem that rule 1 and rule 4 both match, settled by rule 1
C1_Witness ==
    /\ pc = "extracted"
    /\ rule = 1
    /\ RuleMatches(4, name)

(***************************************************************************)
(* C2. The series name returned is never the empty string (stated here for *)
(* the filenames a rule matches).                                          *)
(***************************************************************************)
C2_NameNeverEmpty ==
    (Extracted /\ rule # 0) => anime_name # <<>>

(***************************************************************************)
(* C3. The series name returned has no leading or trailing whitespace and  *)
(* no two whitespace characters in a row (stated here for the filenames a  *)
(* rule matches).                                                          *)
(***************************************************************************)
C3_NameWhitespaceNormalized ==
    (Extracted /\ rule # 0) =>
        /\ anime_name # <<>> => /\ anime_name[1] \notin Whitespace
                                /\ anime_name[Len(anime_name)] \notin Whitespace
        /\ \A i \in 1..(Len(anime_name) - 1) :
               ~(anime_name[i] \in Whitespace /\ anime_name[i + 1] \in Whitespace)

(***************************************************************************)
(* C6. extract_anime_info never raises: for every filename it returns a    *)
(* series name that is a str and an episode that is a str or None.         *)
(***************************************************************************)
C6_NeverRaises ==
    /\ raised = "none"
    /\ pc # "raised"
    /\ Extracted => (anime_name # None /\ (rule = 0 <=> episode = None))

\* rule 2 matched through its second alternative: group 2 is None and the
\* episode was read from group 3
C6_Witness ==
    /\ pc = "extracted"
    /\ rule = 2
    /\ match.caps[2] = NoSpan
    /\ episode # None

(***************************************************************************)
(* C8. If no rule matches the stem, the series name is the stem verbatim   *)
(* and the episode is None; if a rule matches, the episode is a non-empty  *)
(* string of decimal digits, the very text captured from the stem.         *)
(***************************************************************************)
C8_FallbackAndEpisode ==
    Extracted =>
        IF \E k \in Rules : RuleMatches(k, name)
        THEN /\ episode # None
             /\ episode # <<>>
             /\ \A i \in DOMAIN episode : episode[i] \in Digit
             /\ episode = SubSeq(name, EpisodeSpan[1], EpisodeSpan[2])
        ELSE /\ anime_name = name
             /\ episode = None

\* no rule matched a stem that the clean-up would have changed
C8_Witness ==
    /\ pc = "extracted"
    /\ rule = 0
    /\ \E i \in DOMAIN name : name[i] \in {" ", ".", "-"}
    /\ anime_name = name

(***************************************************************************)
(* C9. The stem and the extension.                                         *)
(***************************************************************************)
\* the last index of c in f, 0 if none
LastIndexOf(f, c) ==
    LET at == {i \in DOMAIN f : f[i] = c} IN
    IF at = {} THEN 0 ELSE CHOOSE i \in at : \A j \in at : j <= i

\* C9 as stated: the stem is the filename up to its final ".", the extension
\* is the rest (the whole filename and the empty string if it has no ".")
C9_SplitAtFinalDot ==
    pc = "generated" =>
        LET dot == LastIndexOf(filename, ".") IN
        IF dot = 0 THEN name = filename /\ extension = <<>>
        ELSE /\ name = SubSeq(filename, 1, dot - 1)
             /\ extension = SubSeq(filename, dot, Len(filename))

\* C9 as amended: stem followed by extension is the filename; the split is at
\* the final "." when that "." lies after the last "/" and some character
\* other than "." lies between the two; otherwise the extension is empty
C9_SplitAtFinalDotOfBasename ==
    pc = "generated" =>
        LET dot   == LastIndexOf(filename, ".")
            slash == LastIndexOf(filename, "/")
        IN  /\ name \o extension = filename
            /\ IF dot > slash /\ \E i \in (slash + 1)..(dot - 1) : filename[i] # "."
               THEN Len(name) = dot - 1
               ELSE extension = <<>>

\* a filename that begins with ".", one with a "/" after its final ".", and
\* one split at its final "."
C9_Witness ==
    /\ pc = "generated"
    /\ filename # <<>>
    /\ \/ filename[1] = "." /\ LastIndexOf(filename, ".") = 1 /\ Len(filename) > 1
       \/ LastIndexOf(filename, "/") > LastIndexOf(filename, ".")
          /\ LastIndexOf(filename, ".") > 1
    /\ extension = <<>>

Alnum == Digit \cup UpperLetters \cup LowerLetters
QualityWords ==
    { <<"7","2","0","p">>, <<"1","0","8","0","p">>, <<"4","8","0","p">>,
      <<"b","d">>, <<"b","l","u","r","a","y">>, <<"w","e","b">>,
      <<"h","d","t","v">> }
LowerStr(w) == [i \in DOMAIN w |-> Lower(w[i])]

\* a name made of words of letters and digits, none of them a quality
\* indicator, with single spaces between them
PlainName(n) ==
    /\ n # <<>>
    /\ \A i \in DOMAIN n : n[i] \in Alnum \cup {" "}
    /\ n[1] # " "
    /\ n[Len(n)] # " "
    /\ \A i \in 1..(Len(n) - 1) : ~(n[i] = " " /\ n[i + 1] = " ")
    /\ \A i \in DOMAIN n : \A j \in i..Len(n) :
           ( /\ i = 1 \/ n[i - 1] = " "
             /\ j = Len(n) \/ n[j + 1] = " "
             /\ \A x \in i..j : n[x] # " " )
           => LowerStr(SubSeq(n, i, j)) \notin QualityWords

\* a tag that holds neither "]" nor a line break
PlainTag(g) == \A i \in DOMAIN g : g[i] \notin {"]", "\n"}

ReservedChars == {"<", ">", ":", "\"", "/", "\\", "|", "?", "*"}
NotReserved(c) == c \notin ReservedChars

C4_SafeAndDeterministic ==
    /\ pc = "generated" =>
           /\ \A i \in DOMAIN new_filename : new_filename[i] \notin ReservedChars
           /\ new_filename = SelectSeq(formatted, NotReserved)
    /\ \A c1, c2 \in calls :
           ( /\ c1.anime_name = c2.anime_name
             /\ c1.episode = c2.episode
             /\ c1.extension = c2.extension )
           => c1.new_filename = c2.new_filename

\* two calls for different original filenames with the same extension, the
\* series name and the extension holding reserved characters
C4_Witness ==
    /\ pc = "generated"
    /\ \E c1, c2 \in calls :
           /\ c1.original_filename # c2.original_filename
           /\ c1.extension = c2.extension
    /\ \E i \in DOMAIN anime_name : anime_name[i] \in ReservedChars
    /\ \E i \in DOMAIN extension : extension[i] \in ReservedChars
    /\ Len(new_filename) < Len(formatted)

(***************************************************************************)
(* C7. With an episode, the result is "<name> - Episode <ep><ext>" where   *)
(* ep is the episode left-padded with "0" to two characters; without one   *)
(* it is "<name><ext>"; in both with the reserved characters removed.      *)
(***************************************************************************)
Pad2(e) == IF Len(e) = 1 THEN <<"0">> \o e ELSE e

Notices == {"not_a_video", "too_large", "error_notice"}

C10_FailuresEndInNotice ==
    /\ ~propagated
    /\ pc # "raised"
    /\ (pc = "returned" /\ failed # "none") =>
           /\ sent # <<>>
           /\ sent[Len(sent)].kind \in Notices
    /\ \A i \in DOMAIN sent : sent[i].exception = "none"

====
